---- MODULE Spec2Model ----
(***************************************************************************)
(* Model of the retrieval / reranking / generation pipeline of the IT      *)
(* knowledge retrieval service: the Flask handlers of app.py (query,       *)
(* query_stream and its SSE generators), the service wrappers they call    *)
(* (EmbeddingService, VectorService, RerankerService, LLMService) and the  *)
(* configuration they read.                                                *)
(*                                                                         *)
(* Strings that the code converts (strip) are sequences of one-character   *)
(* strings; similarities, thresholds and scores are tenths (7 == 0.7).     *)
(* Python dicts are functions over their keys, so key presence is DOMAIN.  *)
(***************************************************************************)
EXTENDS Integers, Sequences, FiniteSets, TLC

\* ------------------------------------------------------------------ bounds
\* Size of the document corpus the vector store can hold.
MaxDocs == 3
\* Largest top_k handed to rerank when it is exercised on its own.
MaxTopK == 3
\* Largest number of fragments one streamed generation yields.
MaxFragments == 2
MaxReplyLen == 4

\* ----------------------------------------------------------- configuration
\* Config.MATCH_COUNT and Config.MATCH_THRESHOLD defaults (tenths).
MATCH_COUNT == 3
MATCH_THRESHOLD == 7
\* The reranking attributes of Config. app.py reads them (lines 39-41, 91-93,
\* 200-202) and tests/test_config.py fixes their types (lines 52-64), but
\* src/config.py declares none of them: they are taken from the tests and the
\* specification, a boolean flag and two positive counts, the first the wider.
INITIAL_RETRIEVAL_COUNT == 3
FINAL_RESULT_COUNT == 2
RerankerFlags == BOOLEAN

NoneVal == "None"

\* -------------------------------------------------------------- strings
IsSpace(c) == c \in {" ", "\n", "\t"}

RECURSIVE LStrip(_)
LStrip(s) == IF s # <<>> /\ IsSpace(Head(s)) THEN LStrip(Tail(s)) ELSE s

RECURSIVE RStrip(_)
RStrip(s) ==
    IF s # <<>> /\ IsSpace(s[Len(s)]) THEN RStrip(SubSeq(s, 1, Len(s) - 1)) ELSE s

\* str.strip(): leading and trailing whitespace removed.
StripLeft(s) == LStrip(s)

Strip(s) == RStrip(LStrip(s))

\* ------------------------------------------------------- request bodies
Questions == { <<>>, <<" ">>, <<" ", "q">>, <<"q">> }
Counts == {0, 1, 2}
Thresholds == {5, 9, 12}
BodyKeys == {"question", "match_count", "match_threshold"}

DictOf(keys, q, mc, mt) ==
    [k \in keys |-> CASE k = "question" -> q
                      [] k = "match_count" -> mc
                      [] k = "match_threshold" -> mt]

\* What request.get_json() yields: it raises (malformed JSON, or a body that
\* is not JSON), returns None (the JSON document null), or returns a dict.
JsonDicts ==
    { DictOf(keys, q, mc, mt) :
        keys \in SUBSET BodyKeys, q \in Questions, mc \in Counts, mt \in Thresholds }

Bodies ==
    { [kind |-> "raise", dict |-> <<>>], [kind |-> "none", dict |-> <<>>] }
    \cup { [kind |-> "dict", dict |-> d] : d \in JsonDicts }

\* dict.get(key, default)
DictGet(d, key, default) == IF key \in DOMAIN d THEN d[key] ELSE default

\* ------------------------------------------------------------ exceptions
\* The except clauses of query tell ValueError (and its subclasses, such as
\* the JSONDecodeError of response.json()) from any other Exception.
ExcClasses == {"ValueError", "Exception"}
Exc(cls, msg) == [cls |-> cls, msg |-> msg]

GenericError == "An error occurred processing your request"
NoInfoAnswer == "I couldn't find any relevant information to answer your question."

\* ------------------------------------------------------------- documents
\* The corpus: document i has a fixed content and similarity to the query.
DocContent(i) == CASE i = 1 -> "A" [] i = 2 -> "" [] OTHER -> "B"
DocSimilarity(i) == CASE i = 1 -> 9 [] i = 2 -> 8 [] i = 3 -> 6 [] OTHER -> 5
Doc(i) == [id |-> i, content |-> DocContent(i), similarity |-> DocSimilarity(i)]
DocIds == 1..MaxDocs

\* Scores the reranking model can give (tenths of the "yes" probability).
Scores == {2, 8}

\* ------------------------------------------------------ Config.validate
\* Names of the required variables whose value is falsy (None or "").
ConfigMissingUnset(cfg) ==
    SelectSeq(<<"SUPABASE_URL", "SUPABASE_KEY">>, LAMBDA name : cfg[name] = NoneVal)

ConfigMissing(cfg) ==
    SelectSeq(<<"SUPABASE_URL", "SUPABASE_KEY">>,
              LAMBDA name : cfg[name] = NoneVal \/ cfg[name] = "")

\* Config.validate(): raises ValueError naming the missing variables.
ConfigValidate(cfg) ==
    IF ConfigMissing(cfg) # <<>>
    THEN [raised |-> TRUE, missing |-> ConfigMissing(cfg)]
    ELSE [raised |-> FALSE, missing |-> <<>>]

\* ------------------------------------------------- RerankerService.rerank
\* Python's seq[:k]: the first k items, or all but the last -k when k < 0.
PySliceToOneMore(s, k) == SubSeq(s, 1, IF k + 1 < Len(s) THEN k + 1 ELSE Len(s))

PySliceTo(s, k) ==
    IF k >= 0
    THEN SubSeq(s, 1, IF k < Len(s) THEN k ELSE Len(s))
    ELSE SubSeq(s, 1, IF Len(s) + k > 0 THEN Len(s) + k ELSE 0)

\* Place d after the items of the descending list whose score is >= its own:
\* sorted(..., reverse=True) is stable, equal scores keep their input order.
RECURSIVE InsertAsc(_, _)
InsertAsc(d, sorted) ==
    IF sorted = <<>> THEN <<d>>
    ELSE IF Head(sorted).rerank_score <= d.rerank_score
         THEN <<Head(sorted)>> \o InsertAsc(d, Tail(sorted))
         ELSE <<d>> \o sorted

RECURSIVE InsertDesc(_, _)
InsertDesc(d, sorted) ==
    IF sorted = <<>> THEN <<d>>
    ELSE IF Head(sorted).rerank_score >= d.rerank_score
         THEN <<Head(sorted)>> \o InsertDesc(d, Tail(sorted))
         ELSE <<d>> \o sorted

RECURSIVE SortByRerankScore(_)
SortByRerankScore(docs) ==
    IF docs = <<>> THEN <<>>
    ELSE InsertDesc(docs[Len(docs)],
                    SortByRerankScore(SubSeq(docs, 1, Len(docs) - 1)))

\* doc['rerank_score'] = float(score), for each document of the input list.
AttachScoresOverSimilarity(documents, scores) ==
    [i \in 1..Len(documents) |->
        [rerank_score |-> scores[i]] @@ [documents[i] EXCEPT !.similarity = scores[i]]]

AttachScores(documents, scores) ==
    [i \in 1..Len(documents) |-> [rerank_score |-> scores[i]] @@ documents[i]]

\* rerank(query, documents, top_k) given the scores of _score_pairs: the
\* input list after the call (its documents are scored in place) and the
\* returned list.
RerankSortingInPlace(documents, scores, top_k) ==
    IF documents = <<>>
    THEN [documents |-> <<>>, result |-> <<>>]
    ELSE [documents |-> SortByRerankScore(AttachScores(documents, scores)),
          result |-> PySliceTo(SortByRerankScore(AttachScores(documents, scores)),
                               top_k)]

Rerank(documents, scores, top_k) ==
    IF documents = <<>>
    THEN [documents |-> <<>>, result |-> <<>>]
    ELSE [documents |-> AttachScores(documents, scores),
          result |-> PySliceTo(SortByRerankScore(AttachScores(documents, scores)),
                               top_k)]

\* ---------------------------------------------------------- vector store
\* The documents of db in descending similarity.
RECURSIVE BySimilarity(_)
BySimilarity(db) ==
    IF db = {} THEN <<>>
    ELSE LET best == CHOOSE i \in db :
                        \A j \in db : \/ DocSimilarity(i) > DocSimilarity(j)
                                      \/ DocSimilarity(i) = DocSimilarity(j) /\ i <= j
         IN  <<Doc(best)>> \o BySimilarity(db \ {best})

MatchDocUnfiltered(db, count, threshold) ==
    PySliceTo(BySimilarity(db), IF count > 0 THEN count ELSE 0)

\* The match_doc procedure of the vector store: the documents whose
\* similarity reaches the threshold, best first, at most match_count.
MatchDoc(db, count, threshold) ==
    PySliceTo(BySimilarity({i \in db : DocSimilarity(i) >= threshold}),
              IF count > 0 THEN count ELSE 0)

\* search_similar_documents: response.data if response.data else [].
SearchFirstDocument(resp) ==
    IF resp.is_none \/ resp.data = <<>> THEN <<>> ELSE <<resp.data[1]>>

SearchSimilarDocuments(resp) ==
    IF resp.is_none \/ resp.data = <<>> THEN <<>> ELSE resp.data

\* ------------------------------------------------------------ LLMService
\* Bodies of the backend's reply to /api/generate: its "response" text,
\* or no "response" key at all.
Replies == { <<>>, <<"a">>, <<" ", "a", " ">> }
\* result.get('response', '').strip()
GenerateAnswer(reply) == Strip(DictGet(reply, "response", <<>>))

\* The string _build_context returns is either a fixed sentence or numbered
\* parts joined by blank lines; the model keeps the parts of a joined string
\* apart. Join of no parts is the empty string, PlainText("").
PlainText(s) == [plain |-> s, parts |-> <<>>]
Join(parts) == [plain |-> "", parts |-> parts]
NoContextFound == "No relevant context found."

\* `if content:` for what doc.get('content') yields: None and '' are falsy.
Truthy(content) == content # NoneVal /\ content # ""

\* context_parts after the loop over enumerate(documents, 1), from index i
\* on: the part "[Document i]\n<content>" for every document with a content.
RECURSIVE ContextParts(_, _)
ContextParts(documents, i) ==
    IF i > Len(documents) THEN <<>>
    ELSE LET content == DictGet(documents[i], "content", NoneVal)
         IN  (IF Truthy(content)
              THEN << [number |-> i, content |-> content] >>
              ELSE <<>>) \o ContextParts(documents, i + 1)

\* LLMService._build_context(documents)
BuildContext(documents) ==
    IF documents = <<>> THEN PlainText(NoContextFound)
    ELSE Join(ContextParts(documents, 1))

\* The caller's document list after generate_answer(question, documents):
\* the method and _build_context only read it (doc.get('content')) and
\* assign nothing to the list or to its documents.
DocumentsAfterAnswerNumbered(documents) ==
    [i \in DOMAIN documents |-> [number |-> i] @@ documents[i]]

DocumentsAfterAnswer(documents) == documents

\* Fragments a streamed generation can yield. generate() iterates over
\* llm_service.generate_answer_stream (app.py:264), which llm_service.py does
\* not define: the stream is taken from the specification, a finite sequence
\* of text fragments, empty ones included, that may fail at any point.
Fragments == { <<>>, <<"a">>, <<"b">> }

\* ================================================================ state
VARIABLES
    Config,             \* the Config class attributes read from the environment
    mainpc,             \* __main__: "boot", "serving" or "exit"
    embedding_service,  \* module globals of app.py: NoneVal or "obj"
    vector_service,
    llm_service,
    reranker_service,
    pc,                 \* position of the request handler / SSE generator
    endpoint,           \* "query" or "stream"
    body,               \* what request.get_json() yields for the request
    question,           \* locals of the handler
    match_count,
    match_threshold,
    initial_count,
    final_count,
    retrieved,          \* the list object the retriever returned
    similar_docs,       \* the handler's similar_docs
    calls,              \* backend calls made for the request, in order
    response,           \* the HTTP response returned by the handler
    events,             \* SSE frames emitted after the response was returned
    fragments,          \* fragments the streamed generation yielded so far
    rr,                 \* a call of RerankerService.rerank on its own
    bc,                 \* a call of LLMService._build_context on its own
    vs,                 \* a call of VectorService.search_similar_documents on its own
    ga,                 \* a call of LLMService.generate_answer on its own
    cf,                 \* the Config class: its import, validate() and reads
    reqs                \* requests in flight at the same time, by request

vars == << Config, mainpc, embedding_service, vector_service, llm_service,
           reranker_service, pc, endpoint, body, question, match_count,
           match_threshold, initial_count, final_count, retrieved, similar_docs,
           calls, response, events, fragments, rr, bc, vs, ga, cf, reqs >>

handles == << embedding_service, vector_service, llm_service, reranker_service >>
locals == << question, match_count, match_threshold, initial_count, final_count,
             retrieved, similar_docs >>

Endpoints == {"query", "stream"}
NoResponse == [status |-> 0, mimetype |-> NoneVal, json |-> <<>>]
RrIdle == [pc |-> "off", documents |-> <<>>, scores |-> <<>>, top_k |-> 0,
           input |-> <<>>, result |-> <<>>]
BcIdle == [pc |-> "off", documents |-> <<>>, context |-> PlainText("")]
GaIdle == [pc |-> "off", context_documents |-> <<>>,
           post |-> [raises |-> FALSE, json |-> <<>>],
           context |-> PlainText(""), documents |-> <<>>, raised |-> FALSE,
           answer |-> <<>>]
CfIdle == [pc |-> "off", environ |-> <<>>, attrs |-> <<>>,
           validate |-> [raised |-> FALSE, missing |-> <<>>],
           read |-> [name |-> NoneVal, raised |-> FALSE]]
VsIdle == [pc |-> "off", match_count |-> 0, match_threshold |-> 0,
           execute |-> [raises |-> FALSE, is_none |-> TRUE, data |-> <<>>],
           rpc |-> <<>>, raised |-> FALSE, result |-> <<>>]

Configs ==
    [ SUPABASE_URL : {NoneVal, "", "url"},
      SUPABASE_KEY : {NoneVal, "", "key"},
      FLASK_ENV : {"development", "production"},
      RERANKER_ENABLED : RerankerFlags ]

InitRequest ==
    /\ pc = "idle"
    /\ endpoint = NoneVal
    /\ body = [kind |-> "none", dict |-> <<>>]
    /\ question = <<>>
    /\ match_count = 0
    /\ match_threshold = 0
    /\ initial_count = 0
    /\ final_count = 0
    /\ retrieved = <<>>
    /\ similar_docs = <<>>
    /\ calls = <<>>
    /\ response = NoResponse
    /\ events = <<>>
    /\ fragments = <<>>

Init ==
    /\ Config \in Configs
    /\ mainpc = "boot"
    /\ embedding_service = NoneVal
    /\ vector_service = NoneVal
    /\ llm_service = NoneVal
    /\ reranker_service = NoneVal
    /\ InitRequest
    /\ rr = RrIdle
    /\ bc = BcIdle
    /\ vs = VsIdle
    /\ ga = GaIdle
    /\ cf = CfIdle
    /\ reqs = <<>>

\* ------------------------------------------------------------- responses
JsonResponse(status, json) ==
    [status |-> status, mimetype |-> "application/json", json |-> json]

EventStream == [status |-> 200, mimetype |-> "text/event-stream", json |-> <<>>]

\* except Exception of query and of query_stream.
InternalError(e) ==
    JsonResponse(500, [success |-> FALSE,
                       error |-> GenericError,
                       details |-> IF Config.FLASK_ENV = "development"
                                   THEN e.msg ELSE NoneVal])

\* The except clauses of the two handlers: query answers a ValueError with
\* 400 and the exception's text, query_stream has the generic clause only.
HandleExceptionAsQuery(ep, e) ==
    IF e.cls = "ValueError"
    THEN JsonResponse(400, [success |-> FALSE, error |-> e.msg])
    ELSE InternalError(e)

HandleException(ep, e) ==
    IF ep = "query" /\ e.cls = "ValueError"
    THEN JsonResponse(400, [success |-> FALSE, error |-> e.msg])
    ELSE InternalError(e)

\* The 200 of query for an empty candidate set.
NoDocumentsAsNotFound ==
    JsonResponse(404, [success |-> FALSE, error |-> "No matching documents found"])

NoDocumentsResponse ==
    JsonResponse(200, [success |-> TRUE,
                       answer |-> NoInfoAnswer,
                       sources |-> <<>>,
                       message |-> "No matching documents found"])

\* The 200 of query after generation.
QueryResponse(answer, docs, meta) ==
    JsonResponse(200, [success |-> TRUE,
                       answer |-> answer,
                       sources |-> docs,
                       metadata |-> meta])

\* The SSE frames of query_stream.
SourcesFrame(docs) == [type |-> "sources", sources |-> docs]
MetadataFrame(meta) == [type |-> "metadata", metadata |-> meta]
ChunkFrame(chunk) == [type |-> "chunk", content |-> chunk]
DoneFrame == [type |-> "done"]
ErrorFrame(msg) == [type |-> "error", message |-> msg]

\* The handler returns `resp`: the request is over.
Return(resp) ==
    /\ response' = resp
    /\ pc' = "done"

\* --------------------------------------------------------------- startup
initialize_without_llm ==
    /\ mainpc = "boot"
    /\ mainpc' = "serving"
    /\ embedding_service' = "obj"
    /\ vector_service' = "obj"
    /\ reranker_service' = IF Config.RERANKER_ENABLED THEN "obj" ELSE NoneVal
    /\ UNCHANGED << Config, llm_service, pc, endpoint, body, locals, calls, response,
                    events, fragments, rr, bc, vs, ga, cf, reqs >>

\* initialize_services(), called by __main__ before app.run(); a failure
\* ends the process.
initialize_services ==
    /\ mainpc = "boot"
    /\ IF ConfigValidate(Config).raised
       THEN /\ mainpc' = "exit"
            /\ UNCHANGED handles
       ELSE /\ mainpc' = "serving"
            /\ embedding_service' = "obj"
            /\ vector_service' = "obj"
            /\ llm_service' = "obj"
            /\ reranker_service' = IF Config.RERANKER_ENABLED THEN "obj" ELSE NoneVal
    /\ UNCHANGED << Config, pc, endpoint, body, locals, calls, response, events,
                    fragments, rr, bc, vs, ga, cf, reqs >>

\* ------------------------------------------------------------- a request
ReceiveRequest ==
    /\ mainpc = "serving"
    /\ pc \in {"idle", "done"}
    /\ \E ep \in Endpoints, b \in Bodies :
          /\ endpoint' = ep
          /\ body' = b
    /\ pc' = "validate"
    /\ question' = <<>>
    /\ match_count' = 0
    /\ match_threshold' = 0
    /\ initial_count' = 0
    /\ final_count' = 0
    /\ retrieved' = <<>>
    /\ similar_docs' = <<>>
    /\ calls' = <<>>
    /\ response' = NoResponse
    /\ events' = <<>>
    /\ fragments' = <<>>
    /\ UNCHANGED << Config, mainpc, handles, rr, bc, vs, ga, cf, reqs >>

\* The retrieval-count policy: the reranker settings if it is enabled, else
\* the caller's match_count (or its default) for both counts.
InitialCountIgnoringReranker(enabled, count) == count
InitialCount(enabled, count) == IF enabled THEN INITIAL_RETRIEVAL_COUNT ELSE count

FinalCountIgnoringReranker(enabled, count) == count

FinalCount(enabled, count) == IF enabled THEN FINAL_RESULT_COUNT ELSE count

\* match_count, match_threshold and the two counts of the policy.
ReadParametersSkippingEmbed(data, q) ==
    /\ question' = q
    /\ match_count' = DictGet(data, "match_count", MATCH_COUNT)
    /\ match_threshold' = DictGet(data, "match_threshold", MATCH_THRESHOLD)
    /\ initial_count' = InitialCount(Config.RERANKER_ENABLED,
                                     DictGet(data, "match_count", MATCH_COUNT))
    /\ final_count' = FinalCount(Config.RERANKER_ENABLED,
                                 DictGet(data, "match_count", MATCH_COUNT))
    /\ pc' = "search"
    /\ UNCHANGED response

ReadParameters(data, q) ==
    /\ question' = q
    /\ match_count' = DictGet(data, "match_count", MATCH_COUNT)
    /\ match_threshold' = DictGet(data, "match_threshold", MATCH_THRESHOLD)
    /\ initial_count' = InitialCount(Config.RERANKER_ENABLED,
                                     DictGet(data, "match_count", MATCH_COUNT))
    /\ final_count' = FinalCount(Config.RERANKER_ENABLED,
                                 DictGet(data, "match_count", MATCH_COUNT))
    /\ pc' = "embed"
    /\ UNCHANGED response

\* `not data`: None or an empty dict.
Falsy(b) == b.kind = "none" \/ DOMAIN b.dict = {}

\* query, up to the first backend call.
query_validate ==
    /\ pc = "validate"
    /\ endpoint = "query"
    /\ IF body.kind = "raise"
       THEN /\ Return(HandleException("query", Exc("Exception", "400 Bad Request")))
            /\ UNCHANGED << question, match_count, match_threshold, initial_count,
                            final_count >>
       ELSE IF Falsy(body) \/ "question" \notin DOMAIN body.dict
       THEN /\ Return(JsonResponse(400, [success |-> FALSE,
                                         error |-> "Missing required field: question"]))
            /\ UNCHANGED << question, match_count, match_threshold, initial_count,
                            final_count >>
       ELSE IF Strip(body.dict["question"]) = <<>>
       THEN /\ Return(JsonResponse(400, [success |-> FALSE,
                                         error |-> "Question cannot be empty"]))
            /\ question' = Strip(body.dict["question"])
            /\ UNCHANGED << match_count, match_threshold, initial_count, final_count >>
       ELSE ReadParameters(body.dict, Strip(body.dict["question"]))
    /\ UNCHANGED << Config, mainpc, handles, endpoint, body, retrieved, similar_docs,
                    calls, events, fragments, rr, bc, vs, ga, cf, reqs >>

\* query_stream, up to the first backend call.
stream_validate ==
    /\ pc = "validate"
    /\ endpoint = "stream"
    /\ IF body.kind = "raise"
       THEN /\ Return(HandleException("stream", Exc("Exception", "400 Bad Request")))
            /\ UNCHANGED << question, match_count, match_threshold, initial_count,
                            final_count >>
       ELSE IF body.kind = "none"
       THEN /\ Return(HandleException("stream",
                        Exc("Exception", "'NoneType' object has no attribute 'get'")))
            /\ UNCHANGED << question, match_count, match_threshold, initial_count,
                            final_count >>
       ELSE IF Strip(DictGet(body.dict, "question", <<>>)) = <<>>
       THEN /\ Return(JsonResponse(400, [success |-> FALSE,
                                         error |-> "Question cannot be empty"]))
            /\ question' = <<>>
            /\ UNCHANGED << match_count, match_threshold, initial_count, final_count >>
       ELSE ReadParameters(body.dict, Strip(body.dict["question"]))
    /\ UNCHANGED << Config, mainpc, handles, endpoint, body, retrieved, similar_docs,
                    calls, events, fragments, rr, bc, vs, ga, cf, reqs >>

\* One backend call of the request: the stage, whether it raised, and the
\* arguments it was given.
Call(stage, raised, args) == [stage |-> stage, raised |-> raised, args |-> args]

\* The handler's except clause answers exception e raised by a stage.
RaiseAndRetry(e) == UNCHANGED << response, pc >>

Raise(e) == Return(HandleException(endpoint, e))

\* Step 1: embedding_service.generate_embedding(question).
Embed ==
    /\ pc = "embed"
    /\ IF embedding_service = NoneVal
       THEN /\ Raise(Exc("Exception", "'NoneType' object has no attribute"))
            /\ UNCHANGED calls
       ELSE \/ /\ calls' = Append(calls, Call("embed", FALSE, [text |-> question]))
               /\ pc' = "search"
               /\ UNCHANGED response
            \/ /\ calls' = Append(calls, Call("embed", TRUE, [text |-> question]))
               /\ \E cls \in ExcClasses : Raise(Exc(cls, "embedding failed"))
    /\ UNCHANGED << Config, mainpc, handles, endpoint, body, locals, events,
                    fragments, rr, bc, vs, ga, cf, reqs >>

\* Step 2: vector_service.search_similar_documents(query_embedding,
\* match_count=initial_count, match_threshold=match_threshold).
Search ==
    /\ pc = "search"
    /\ LET args == [match_count |-> initial_count,
                    match_threshold |-> match_threshold]
       IN  \/ \E db \in SUBSET DocIds :
                LET resp == [is_none |-> FALSE,
                             data |-> MatchDoc(db, initial_count, match_threshold)]
                IN  /\ calls' = Append(calls, Call("search", FALSE, args))
                    /\ retrieved' = SearchSimilarDocuments(resp)
                    /\ similar_docs' = SearchSimilarDocuments(resp)
                    /\ pc' = "rerank"
                    /\ UNCHANGED response
           \/ /\ calls' = Append(calls, Call("search", FALSE, args))
              /\ retrieved' = SearchSimilarDocuments([is_none |-> TRUE, data |-> <<>>])
              /\ similar_docs' = SearchSimilarDocuments([is_none |-> TRUE, data |-> <<>>])
              /\ pc' = "rerank"
              /\ UNCHANGED response
           \/ /\ calls' = Append(calls, Call("search", TRUE, args))
              /\ \E cls \in ExcClasses : Raise(Exc(cls, "search failed"))
              /\ UNCHANGED << retrieved, similar_docs >>
    /\ UNCHANGED << Config, mainpc, handles, endpoint, body, question, match_count,
                    match_threshold, initial_count, final_count, events, fragments,
                    rr, bc, vs, ga, cf, reqs >>

\* if Config.RERANKER_ENABLED and reranker_service and similar_docs
RerankWantedToNarrow ==
    /\ Config.RERANKER_ENABLED
    /\ reranker_service # NoneVal
    /\ Len(similar_docs) > FINAL_RESULT_COUNT

RerankWanted ==
    Config.RERANKER_ENABLED /\ reranker_service # NoneVal /\ similar_docs # <<>>

\* Step 2.5: similar_docs = reranker_service.rerank(question, similar_docs,
\* top_k=final_count), or nothing when the condition is false.
RerankStep ==
    /\ pc = "rerank"
    /\ IF RerankWanted
       THEN LET args == [documents |-> similar_docs, top_k |-> final_count]
            IN  \/ \E scores \in [1..Len(similar_docs) -> Scores] :
                     /\ calls' = Append(calls, Call("rerank", FALSE, args))
                     /\ retrieved' = Rerank(similar_docs, scores, final_count).documents
                     /\ similar_docs' = Rerank(similar_docs, scores, final_count).result
                     /\ pc' = "answer"
                     /\ UNCHANGED response
                \/ /\ calls' = Append(calls, Call("rerank", TRUE, args))
                   /\ \E cls \in ExcClasses : Raise(Exc(cls, "reranking failed"))
                   /\ UNCHANGED << retrieved, similar_docs >>
       ELSE /\ pc' = "answer"
            /\ UNCHANGED << calls, retrieved, similar_docs, response >>
    /\ UNCHANGED << Config, mainpc, handles, endpoint, body, question, match_count,
                    match_threshold, initial_count, final_count, events, fragments,
                    rr, bc, vs, ga, cf, reqs >>

Metadata ==
    [question |-> question,
     num_sources |-> Len(similar_docs),
     match_threshold |-> match_threshold]

\* query, from `if not similar_docs` to the response: the fixed answer for
\* an empty candidate set, else Step 3, llm_service.generate_answer.
query_answer ==
    /\ pc = "answer"
    /\ endpoint = "query"
    /\ IF similar_docs = <<>>
       THEN /\ Return(NoDocumentsResponse)
            /\ UNCHANGED calls
       ELSE LET args == [question |-> question, documents |-> similar_docs]
            IN  \/ /\ calls' = Append(calls, Call("generate", FALSE, args))
                   /\ \E reply \in { [response |-> r] : r \in Replies } \cup { <<>> } :
                         Return(QueryResponse(GenerateAnswer(reply),
                                              DocumentsAfterAnswer(similar_docs),
                                              Metadata))
                \/ /\ calls' = Append(calls, Call("generate", TRUE, args))
                   /\ \E cls \in ExcClasses : Raise(Exc(cls, "generation failed"))
    /\ UNCHANGED << Config, mainpc, handles, endpoint, body, locals, events,
                    fragments, rr, bc, vs, ga, cf, reqs >>

\* query_stream, from `if not similar_docs` to the returned Response: an
\* event stream fed by generate_error or by generate.
stream_respond ==
    /\ pc = "answer"
    /\ endpoint = "stream"
    /\ response' = EventStream
    /\ pc' = IF similar_docs = <<>> THEN "generate_error" ELSE "generate"
    /\ UNCHANGED << Config, mainpc, handles, endpoint, body, locals, calls, events,
                    fragments, rr, bc, vs, ga, cf, reqs >>

Emit(ev) == events' = Append(events, ev)

\* generate_error(): its single frame.
generate_error ==
    /\ pc = "generate_error"
    /\ Emit(ErrorFrame("No relevant documents found"))
    /\ pc' = "done"
    /\ UNCHANGED << Config, mainpc, handles, endpoint, body, locals, calls, response,
                    fragments, rr, bc, vs, ga, cf, reqs >>

\* generate(): the sources frame.
generate_sources ==
    /\ pc = "generate"
    /\ Emit(SourcesFrame(similar_docs))
    /\ pc' = "generate_metadata"
    /\ UNCHANGED << Config, mainpc, handles, endpoint, body, locals, calls, response,
                    fragments, rr, bc, vs, ga, cf, reqs >>

\* generate(): the metadata frame.
generate_metadata ==
    /\ pc = "generate_metadata"
    /\ Emit(MetadataFrame(Metadata))
    /\ pc' = "generate_call"
    /\ UNCHANGED << Config, mainpc, handles, endpoint, body, locals, calls, response,
                    fragments, rr, bc, vs, ga, cf, reqs >>

\* generate(): llm_service.generate_answer_stream(question, similar_docs)
\* is called; the stream is lazy, nothing is generated before the loop asks.
generate_call ==
    /\ pc = "generate_call"
    /\ calls' = Append(calls, Call("generate_stream", FALSE,
                                   [question |-> question, documents |-> similar_docs]))
    /\ pc' = "generate_loop"
    /\ UNCHANGED << Config, mainpc, handles, endpoint, body, locals, response, events,
                    fragments, rr, bc, vs, ga, cf, reqs >>

\* What the streamed answer does when the loop asks for its next item: it
\* yields a fragment, ends, or raises.
StreamOutcomes == {"fragment", "end", "raise"}

\* generate(): what one turn of the for loop emits and where it goes on. A
\* fragment is forwarded as a chunk frame unless it is empty; after the last
\* one the done frame is sent; the except clause sends the error frame.
StreamTurnNoDone(outcome, chunk) ==
    CASE outcome = "fragment" ->
            [frames |-> IF chunk # <<>> THEN <<ChunkFrame(chunk)>> ELSE <<>>,
             pc |-> "generate_loop"]
      [] outcome = "end" -> [frames |-> <<>>, pc |-> "done"]
      [] outcome = "raise" ->
            [frames |-> <<ErrorFrame("generation failed")>>, pc |-> "done"]

StreamTurnErrorThenDone(outcome, chunk) ==
    CASE outcome = "fragment" ->
            [frames |-> IF chunk # <<>> THEN <<ChunkFrame(chunk)>> ELSE <<>>,
             pc |-> "generate_loop"]
      [] outcome = "end" -> [frames |-> <<DoneFrame>>, pc |-> "done"]
      [] outcome = "raise" ->
            [frames |-> <<ErrorFrame("generation failed"), DoneFrame>>, pc |-> "done"]

StreamTurnForwardingEmpty(outcome, chunk) ==
    CASE outcome = "fragment" ->
            [frames |-> <<ChunkFrame(chunk)>>, pc |-> "generate_loop"]
      [] outcome = "end" -> [frames |-> <<DoneFrame>>, pc |-> "done"]
      [] outcome = "raise" ->
            [frames |-> <<ErrorFrame("generation failed")>>, pc |-> "done"]

StreamTurn(outcome, chunk) ==
    CASE outcome = "fragment" ->
            [frames |-> IF chunk # <<>> THEN <<ChunkFrame(chunk)>> ELSE <<>>,
             pc |-> "generate_loop"]
      [] outcome = "end" -> [frames |-> <<DoneFrame>>, pc |-> "done"]
      [] outcome = "raise" ->
            [frames |-> <<ErrorFrame("generation failed")>>, pc |-> "done"]

generate_loop ==
    /\ pc = "generate_loop"
    /\ \E outcome \in StreamOutcomes, chunk \in Fragments :
          /\ outcome = "fragment" => Len(fragments) < MaxFragments
          /\ outcome # "fragment" => chunk = <<>>
          /\ fragments' = IF outcome = "fragment"
                          THEN Append(fragments, chunk) ELSE fragments
          /\ calls' = IF outcome = "raise"
                      THEN [calls EXCEPT ![Len(calls)].raised = TRUE] ELSE calls
          /\ events' = events \o StreamTurn(outcome, chunk).frames
          /\ pc' = StreamTurn(outcome, chunk).pc
    /\ UNCHANGED << Config, mainpc, handles, endpoint, body, locals, response, rr, bc, vs, ga, cf, reqs >>

Next ==
    \/ initialize_services
    \/ ReceiveRequest
    \/ query_validate
    \/ stream_validate
    \/ Embed
    \/ Search
    \/ RerankStep
    \/ query_answer
    \/ stream_respond
    \/ generate_error
    \/ generate_sources
    \/ generate_metadata
    \/ generate_call
    \/ generate_loop

Spec == Init /\ [][Next]_vars

\* ------------------------------------------ RerankerService.rerank alone
\* Lists of distinct corpus documents, in any order.
DocLists ==
    { [i \in DOMAIN s |-> Doc(s[i])] :
        s \in { t \in UNION { [1..n -> DocIds] : n \in 0..MaxDocs } :
                  \A i, j \in DOMAIN t : i # j => t[i] # t[j] } }

InitRerank ==
    /\ Config = [SUPABASE_URL |-> "url", SUPABASE_KEY |-> "key",
                 FLASK_ENV |-> "development", RERANKER_ENABLED |-> TRUE]
    /\ mainpc = "boot"
    /\ embedding_service = NoneVal
    /\ vector_service = NoneVal
    /\ llm_service = NoneVal
    /\ reranker_service = NoneVal
    /\ InitRequest
    /\ \E docs \in DocLists, k \in 0..MaxTopK :
          \E sc \in [1..Len(docs) -> Scores] :
             rr = [pc |-> "call", documents |-> docs, scores |-> sc, top_k |-> k,
                   input |-> docs, result |-> <<>>]
    /\ bc = BcIdle
    /\ vs = VsIdle
    /\ ga = GaIdle
    /\ cf = CfIdle
    /\ reqs = <<>>

\* result = rerank(query, documents, top_k); `input` is the caller's list
\* after the call.
RerankCall ==
    /\ rr.pc = "call"
    /\ rr' = [rr EXCEPT !.pc = "returned",
                        !.input = Rerank(rr.documents, rr.scores, rr.top_k).documents,
                        !.result = Rerank(rr.documents, rr.scores, rr.top_k).result]
    /\ UNCHANGED << Config, mainpc, handles, pc, endpoint, body, locals, calls,
                    response, events, fragments, bc, vs, ga, cf, reqs >>

NextRerank == RerankCall

SpecRerank == InitRerank /\ [][NextRerank]_vars

\* The service is not started and no request is in flight.
InitNotServing ==
    /\ Config = [SUPABASE_URL |-> "url", SUPABASE_KEY |-> "key",
                 FLASK_ENV |-> "development", RERANKER_ENABLED |-> FALSE]
    /\ mainpc = "boot"
    /\ embedding_service = NoneVal
    /\ vector_service = NoneVal
    /\ llm_service = NoneVal
    /\ reranker_service = NoneVal
    /\ InitRequest

\* ------------------------------------------ LLMService._build_context alone
\* Documents as _build_context can be given them: with a content, with an
\* empty or None content, or without the content key.
ContextDocs ==
    { [id |-> 1, content |-> "A", similarity |-> 9],
      [id |-> 2, content |-> "B", similarity |-> 8],
      [id |-> 3, content |-> "", similarity |-> 8],
      [id |-> 4, content |-> NoneVal, similarity |-> 8],
      [id |-> 5, similarity |-> 9] }
ContextDocLists == UNION { [1..n -> ContextDocs] : n \in 0..MaxDocs }

InitContext ==
    /\ InitNotServing
    /\ rr = RrIdle
    /\ vs = VsIdle
    /\ ga = GaIdle
    /\ cf = CfIdle
    /\ reqs = <<>>
    /\ \E docs \in ContextDocLists :
          bc = [pc |-> "call", documents |-> docs, context |-> PlainText("")]

\* context = self._build_context(documents)
BuildContextCall ==
    /\ bc.pc = "call"
    /\ bc' = [bc EXCEPT !.pc = "returned", !.context = BuildContext(bc.documents)]
    /\ UNCHANGED << Config, mainpc, handles, pc, endpoint, body, locals, calls,
                    response, events, fragments, rr, vs, ga, cf, reqs >>

NextContext == BuildContextCall

SpecContext == InitContext /\ [][NextContext]_vars

\* ------------------------- VectorService.search_similar_documents alone
\* What self.client.rpc('match_doc', ...).execute() does in the call: it
\* raises, or it returns a response whose data is None or a list of
\* documents (any list: the client is a stand-in, as in the unit tests).
Executions ==
    { [raises |-> TRUE, is_none |-> TRUE, data |-> <<>>],
      [raises |-> FALSE, is_none |-> TRUE, data |-> <<>>] }
    \cup { [raises |-> FALSE, is_none |-> FALSE, data |-> d] : d \in DocLists }

InitSearch ==
    /\ InitNotServing
    /\ rr = RrIdle
    /\ bc = BcIdle
    /\ ga = GaIdle
    /\ cf = CfIdle
    /\ reqs = <<>>
    /\ \E mc \in Counts, mt \in Thresholds, ex \in Executions :
          vs = [pc |-> "call", match_count |-> mc, match_threshold |-> mt,
                execute |-> ex, rpc |-> <<>>, raised |-> FALSE, result |-> <<>>]

\* result = search_similar_documents(query_embedding, match_count,
\* match_threshold): the rpc parameters, then the data or the re-raised
\* exception.
SearchCall ==
    /\ vs.pc = "call"
    /\ vs' = [vs EXCEPT
                !.pc = "returned",
                !.rpc = [match_count |-> vs.match_count,
                         match_threshold |-> vs.match_threshold],
                !.raised = vs.execute.raises,
                !.result = IF vs.execute.raises THEN <<>>
                           ELSE SearchSimilarDocuments(vs.execute)]
    /\ UNCHANGED << Config, mainpc, handles, pc, endpoint, body, locals, calls,
                    response, events, fragments, rr, bc, ga, cf, reqs >>

NextSearch == SearchCall

SpecSearch == InitSearch /\ [][NextSearch]_vars

\* --------------------------------------- LLMService.generate_answer alone
\* Texts the backend can put in the "response" field of its reply.
ReplyTexts == UNION { [1..n -> {" ", "\n", "a"}] : n \in 0..MaxReplyLen }

\* What requests.post(...) with raise_for_status() and json() does in the
\* call: it raises, or yields the reply's body, with or without "response".
Posts ==
    { [raises |-> TRUE, json |-> <<>>], [raises |-> FALSE, json |-> <<>>] }
    \cup { [raises |-> FALSE, json |-> [response |-> t]] : t \in ReplyTexts }

InitAnswer ==
    /\ InitNotServing
    /\ rr = RrIdle
    /\ bc = BcIdle
    /\ vs = VsIdle
    /\ cf = CfIdle
    /\ reqs = <<>>
    /\ \E docs \in DocLists, post \in Posts :
          ga = [pc |-> "call", context_documents |-> docs, post |-> post,
                context |-> PlainText(""), documents |-> docs, raised |-> FALSE,
                answer |-> <<>>]

\* answer = generate_answer(question, context_documents): the context of
\* the prompt, the caller's list after the call (nothing is assigned to it
\* or to its documents), then the stripped text or the re-raised exception.
GenerateAnswerCall ==
    /\ ga.pc = "call"
    /\ ga' = [ga EXCEPT
                !.pc = "returned",
                !.context = BuildContext(ga.context_documents),
                !.documents = DocumentsAfterAnswer(ga.context_documents),
                !.raised = ga.post.raises,
                !.answer = IF ga.post.raises THEN <<>>
                           ELSE GenerateAnswer(ga.post.json)]
    /\ UNCHANGED << Config, mainpc, handles, pc, endpoint, body, locals, calls,
                    response, events, fragments, rr, bc, vs, cf, reqs >>

NextAnswer == GenerateAnswerCall

SpecAnswer == InitAnswer /\ [][NextAnswer]_vars

\* ------------------------------------------------- the Config class alone
\* The process environment when config.py is imported: NoneVal stands for
\* a variable that is not set.
Environs ==
    [ SUPABASE_URL : {NoneVal, "", "url"},
      SUPABASE_KEY : {NoneVal, "", "key"},
      FLASK_ENV : {NoneVal, "production"},
      MATCH_COUNT : {NoneVal, "5"} ]

\* os.getenv(name, default)
Getenv(environ, name, default) ==
    IF name \in DOMAIN environ /\ environ[name] # NoneVal
    THEN environ[name] ELSE default

\* int(text), for the texts the environment and the defaults hold.
ParseInt(text) ==
    CASE text = "3" -> 3
      [] text = "5" -> 5
      [] text = "5000" -> 5000

\* float(text) in tenths, for the default of MATCH_THRESHOLD.
ParseTenths(text) == CASE text = "0.7" -> 7

\* The attributes the class body of Config assigns.
ConfigClass(environ) ==
    [ SUPABASE_URL |-> Getenv(environ, "SUPABASE_URL", NoneVal),
      SUPABASE_KEY |-> Getenv(environ, "SUPABASE_KEY", NoneVal),
      OLLAMA_BASE_URL |-> Getenv(environ, "OLLAMA_BASE_URL", "http://ollama:11434"),
      EMBEDDING_MODEL |-> Getenv(environ, "EMBEDDING_MODEL", "Qwen/Qwen3-Embedding-0.6B"),
      LLM_MODEL |-> Getenv(environ, "LLM_MODEL", "llama3.2:latest"),
      VECTOR_TABLE_NAME |-> Getenv(environ, "VECTOR_TABLE_NAME", "documents"),
      MATCH_THRESHOLD |-> ParseTenths(Getenv(environ, "MATCH_THRESHOLD", "0.7")),
      MATCH_COUNT |-> ParseInt(Getenv(environ, "MATCH_COUNT", "3")),
      FLASK_ENV |-> Getenv(environ, "FLASK_ENV", "development"),
      PORT |-> ParseInt(Getenv(environ, "PORT", "5000")) ]

\* The attributes of Config that app.py reads.
AppReads ==
    { "EMBEDDING_MODEL", "SUPABASE_URL", "SUPABASE_KEY", "OLLAMA_BASE_URL",
      "LLM_MODEL", "VECTOR_TABLE_NAME", "RERANKER_ENABLED", "RERANKER_MODEL",
      "MATCH_COUNT", "MATCH_THRESHOLD", "INITIAL_RETRIEVAL_COUNT",
      "FINAL_RESULT_COUNT", "FLASK_ENV", "PORT" }

InitConfig ==
    /\ InitNotServing
    /\ rr = RrIdle
    /\ bc = BcIdle
    /\ vs = VsIdle
    /\ ga = GaIdle
    /\ reqs = <<>>
    /\ \E environ \in Environs :
          cf = [CfIdle EXCEPT !.pc = "import", !.environ = environ]

\* import config: the class body runs once.
ImportConfig ==
    /\ cf.pc = "import"
    /\ cf' = [cf EXCEPT !.pc = "loaded", !.attrs = ConfigClass(cf.environ)]
    /\ UNCHANGED << Config, mainpc, handles, pc, endpoint, body, locals, calls,
                    response, events, fragments, rr, bc, vs, ga, reqs >>

\* Config.validate()
ValidateCall ==
    /\ cf.pc = "loaded"
    /\ cf' = [cf EXCEPT !.pc = "validated", !.validate = ConfigValidate(cf.attrs)]
    /\ UNCHANGED << Config, mainpc, handles, pc, endpoint, body, locals, calls,
                    response, events, fragments, rr, bc, vs, ga, reqs >>

\* Config.<name>, for a name app.py reads: AttributeError when the class
\* has no such attribute.
ReadAttribute ==
    /\ cf.pc = "validated"
    /\ \E name \in AppReads :
          cf' = [cf EXCEPT !.pc = "read",
                           !.read = [name |-> name,
                                     raised |-> name \notin DOMAIN cf.attrs]]
    /\ UNCHANGED << Config, mainpc, handles, pc, endpoint, body, locals, calls,
                    response, events, fragments, rr, bc, vs, ga, reqs >>

NextConfig ==
    \/ ImportConfig
    \/ ValidateCall
    \/ ReadAttribute

SpecConfig == InitConfig /\ [][NextConfig]_vars

\* ------------------------------------------- requests in flight together
\* Flask runs each request's handler with its own locals; the requests below
\* are handled at the same time, one step of one handler at a time.
ReqIds == {1, 2}

\* What the backends do for one request: the stage that fails, if any, and
\* the documents the store holds for its query.
Worlds == [ fails : {"none", "search", "rerank", "generate"}, db : { {}, {1, 3} } ]

\* The reranking model scores document 1 low and the others high, the
\* language model replies " a", and the streamed answer has an empty fragment
\* between two texts.
WorldScores(documents) ==
    [i \in DOMAIN documents |-> IF documents[i].id = 1 THEN 2 ELSE 8]
WorldReply == [response |-> <<" ", "a">>]
WorldFragments == << <<"a">>, <<>>, <<"b">> >>

ConcurrentBodies ==
    { [question |-> <<"q">>],
      [question |-> <<" ", "q">>, match_count |-> 1, match_threshold |-> 9] }

\* The handler's frame when the request arrives.
NewRequest(ep, b, world) ==
    [endpoint |-> ep, body |-> b, world |-> world, pc |-> "validate",
     question |-> <<>>, match_count |-> 0, match_threshold |-> 0,
     initial_count |-> 0, final_count |-> 0, similar_docs |-> <<>>,
     response |-> NoResponse, events |-> <<>>, taken |-> 0]

\* The except clause of the handler of r answers exception e.
ReqFail(r, e) ==
    [r EXCEPT !.pc = "done", !.response = HandleException(r.endpoint, e)]

ReqMetadata(r) ==
    [question |-> r.question,
     num_sources |-> Len(r.similar_docs),
     match_threshold |-> r.match_threshold]

\* One step of query or query_stream on the frame r of a request: the code
\* of the handlers between two backend calls or two frames, reading r, Config
\* and the service handles.
HandlerStep(r) ==
    CASE r.pc = "validate" ->
            IF r.endpoint = "query" /\ "question" \notin DOMAIN r.body
            THEN [r EXCEPT !.pc = "done",
                           !.response = JsonResponse(400,
                               [success |-> FALSE,
                                error |-> "Missing required field: question"])]
            ELSE IF Strip(DictGet(r.body, "question", <<>>)) = <<>>
            THEN [r EXCEPT !.pc = "done",
                           !.response = JsonResponse(400,
                               [success |-> FALSE,
                                error |-> "Question cannot be empty"])]
            ELSE [r EXCEPT
                    !.pc = "embed",
                    !.question = Strip(r.body["question"]),
                    !.match_count = DictGet(r.body, "match_count", MATCH_COUNT),
                    !.match_threshold = DictGet(r.body, "match_threshold",
                                                MATCH_THRESHOLD),
                    !.initial_count = InitialCount(Config.RERANKER_ENABLED,
                                         DictGet(r.body, "match_count", MATCH_COUNT)),
                    !.final_count = FinalCount(Config.RERANKER_ENABLED,
                                         DictGet(r.body, "match_count", MATCH_COUNT))]
      [] r.pc = "embed" -> [r EXCEPT !.pc = "search"]
      [] r.pc = "search" ->
            IF r.world.fails = "search"
            THEN ReqFail(r, Exc("Exception", "search failed"))
            ELSE [r EXCEPT
                    !.pc = "rerank",
                    !.similar_docs = SearchSimilarDocuments(
                        [is_none |-> FALSE,
                         data |-> MatchDoc(r.world.db, r.initial_count,
                                           r.match_threshold)])]
      [] r.pc = "rerank" ->
            IF Config.RERANKER_ENABLED /\ reranker_service # NoneVal
               /\ r.similar_docs # <<>>
            THEN IF r.world.fails = "rerank"
                 THEN ReqFail(r, Exc("Exception", "reranking failed"))
                 ELSE [r EXCEPT
                         !.pc = "answer",
                         !.similar_docs = Rerank(r.similar_docs,
                                                 WorldScores(r.similar_docs),
                                                 r.final_count).result]
            ELSE [r EXCEPT !.pc = "answer"]
      [] r.pc = "answer" /\ r.endpoint = "query" ->
            IF r.similar_docs = <<>>
            THEN [r EXCEPT !.pc = "done", !.response = NoDocumentsResponse]
            ELSE IF r.world.fails = "generate"
            THEN ReqFail(r, Exc("Exception", "generation failed"))
            ELSE [r EXCEPT
                    !.pc = "done",
                    !.response = QueryResponse(GenerateAnswer(WorldReply),
                                               DocumentsAfterAnswer(r.similar_docs),
                                               ReqMetadata(r))]
      [] r.pc = "answer" /\ r.endpoint = "stream" ->
            [r EXCEPT !.response = EventStream,
                      !.pc = IF r.similar_docs = <<>>
                             THEN "generate_error" ELSE "generate"]
      [] r.pc = "generate_error" ->
            [r EXCEPT !.pc = "done",
                      !.events = Append(@, ErrorFrame("No relevant documents found"))]
      [] r.pc = "generate" ->
            [r EXCEPT !.pc = "generate_metadata",
                      !.events = Append(@, SourcesFrame(r.similar_docs))]
      [] r.pc = "generate_metadata" ->
            [r EXCEPT !.pc = "generate_loop",
                      !.events = Append(@, MetadataFrame(ReqMetadata(r)))]
      [] r.pc = "generate_loop" ->
            LET outcome == IF r.world.fails = "generate" /\ r.taken = 1 THEN "raise"
                           ELSE IF r.taken < Len(WorldFragments) THEN "fragment"
                           ELSE "end"
                chunk == IF outcome = "fragment"
                         THEN WorldFragments[r.taken + 1] ELSE <<>>
            IN  [r EXCEPT !.taken = IF outcome = "fragment" THEN @ + 1 ELSE @,
                          !.events = @ \o StreamTurn(outcome, chunk).frames,
                          !.pc = StreamTurn(outcome, chunk).pc]
      [] OTHER -> r

\* What the handler of request i works on: the locals of its own call.
HandlerStateSharedDocs(all, i) == [all[i] EXCEPT !.similar_docs = all[1].similar_docs]

HandlerState(all, i) == all[i]

InitConcurrent ==
    /\ Config \in { c \in Configs : /\ c.SUPABASE_URL = "url"
                                    /\ c.SUPABASE_KEY = "key"
                                    /\ c.FLASK_ENV = "production" }
    /\ mainpc = "serving"
    /\ embedding_service = "obj"
    /\ vector_service = "obj"
    /\ llm_service = "obj"
    /\ reranker_service = IF Config.RERANKER_ENABLED THEN "obj" ELSE NoneVal
    /\ InitRequest
    /\ rr = RrIdle
    /\ bc = BcIdle
    /\ vs = VsIdle
    /\ ga = GaIdle
    /\ cf = CfIdle
    /\ reqs \in [ReqIds -> { NewRequest(ep, b, world) :
                               ep \in Endpoints, b \in ConcurrentBodies,
                               world \in Worlds }]

\* The handler of one of the requests in flight takes its next step.
StepRequest ==
    /\ \E i \in ReqIds :
          /\ reqs[i].pc # "done"
          /\ reqs' = [reqs EXCEPT ![i] = HandlerStep(HandlerState(reqs, i))]
    /\ UNCHANGED << Config, mainpc, handles, pc, endpoint, body, locals, calls,
                    response, events, fragments, rr, bc, vs, ga, cf >>

NextConcurrent == StepRequest

SpecConcurrent == InitConcurrent /\ [][NextConcurrent]_vars

\* ============================================================ properties
Min(a, b) == IF a < b THEN a ELSE b

\* Backend calls of the request, by stage.
CallsOf(stage) == { i \in DOMAIN calls : calls[i].stage = stage }
Returned(stage) == \E i \in CallsOf(stage) : ~calls[i].raised
AnyRaised == \E i \in DOMAIN calls : calls[i].raised
EventTypes == [i \in DOMAIN events |-> events[i].type]

\* The handler has passed retrieval (and reranking) without a failure and
\* holds an empty candidate set.
EmptyCandidates ==
    /\ pc \in {"answer", "generate_error", "done"}
    /\ Returned("search")
    /\ ~AnyRaised
    /\ similar_docs = <<>>

\* C1: on /api/query an empty candidate set after retrieval or reranking is
\* answered with 200, success=true, the fixed no-information answer and no
\* sources, and generate_answer is not called for the query.
C1_EmptyCandidatesShortCircuit ==
    (endpoint = "query" /\ EmptyCandidates) =>
        /\ CallsOf("generate") = {}
        /\ pc = "done" =>
              /\ response.status = 200
              /\ response.json.success = TRUE
              /\ response.json.answer = NoInfoAnswer
              /\ response.json.sources = <<>>

C1_Witness ==
    /\ endpoint = "query"
    /\ EmptyCandidates
    /\ pc = "done"
    /\ response.status = 200

\* The streamed generation of the request was started and ended normally.
StreamSucceeded ==
    /\ endpoint = "stream"
    /\ pc = "done"
    /\ Returned("generate_stream")

\* C2 as stated: a stream whose generation succeeds is sources, metadata,
\* one or more chunk, done.
C2_OneOrMoreChunks ==
    StreamSucceeded =>
        /\ Len(events) >= 4
        /\ EventTypes[1] = "sources"
        /\ EventTypes[2] = "metadata"
        /\ \A i \in 3..(Len(events) - 1) : EventTypes[i] = "chunk"
        /\ EventTypes[Len(events)] = "done"

\* C2 amended: a stream whose generation succeeds is one sources, one
\* metadata, zero or more chunk (one per non-empty fragment), one done,
\* and no frame ever follows a done frame.
C2_StreamSequence ==
    /\ \A i \in DOMAIN events : EventTypes[i] = "done" => i = Len(events)
    /\ StreamSucceeded =>
          /\ Len(events) >= 3
          /\ EventTypes[1] = "sources"
          /\ EventTypes[2] = "metadata"
          /\ \A i \in 3..(Len(events) - 1) : EventTypes[i] = "chunk"
          /\ EventTypes[Len(events)] = "done"
          /\ Len(events) - 3 = Len(SelectSeq(fragments, LAMBDA f : f # <<>>))

C2_Witness ==
    /\ StreamSucceeded
    /\ fragments = << <<>>, <<"a">> >>
    /\ EventTypes = <<"sources", "metadata", "chunk", "done">>

\* The request body is missing, malformed, has no question, or has a
\* question that is empty after trimming.
InvalidBody ==
    \/ body.kind \in {"raise", "none"}
    \/ "question" \notin DOMAIN body.dict
    \/ Strip(body.dict["question"]) = <<>>

\* C3: on both endpoints an invalid body is answered with 400 and no backend
\* call is made; for the body {} the message names the missing question.
C3_InvalidBodyIs400 ==
    (pc = "done" /\ InvalidBody) =>
        /\ response.status = 400
        /\ calls = <<>>
        /\ (body.kind = "dict" /\ DOMAIN body.dict = {}) =>
              response.json.error = "Missing required field: question"

\* C4: on /api/query a failure of any stage is answered with 500, the
\* generic message, and the exception text in details only in development.
C4_StageFailureIs500 ==
    (endpoint = "query" /\ pc = "done" /\ AnyRaised) =>
        /\ response.status = 500
        /\ response.json.success = FALSE
        /\ response.json.error = GenericError
        /\ Config.FLASK_ENV = "development" => response.json.details # NoneVal
        /\ Config.FLASK_ENV # "development" => response.json.details = NoneVal

\* C5: every 200 of /api/query has the fields success, answer, sources and
\* metadata, with the trimmed question, the effective threshold and the
\* number of sources in metadata.
C5_OkResponseShape ==
    (endpoint = "query" /\ pc = "done" /\ response.status = 200) =>
        /\ DOMAIN response.json = {"success", "answer", "sources", "metadata"}
        /\ response.json.success = TRUE
        /\ response.json.metadata.question = Strip(body.dict["question"])
        /\ response.json.metadata.match_threshold =
              DictGet(body.dict, "match_threshold", MATCH_THRESHOLD)
        /\ response.json.metadata.num_sources = Len(response.json.sources)

\* C6: on /api/query/stream an empty candidate set is not reported with an
\* error frame, and the Answerer is not invoked.
C6_EmptyStreamIsNotError ==
    (endpoint = "stream" /\ pc = "done" /\ EmptyCandidates) =>
        /\ \A i \in DOMAIN events : EventTypes[i] # "error"
        /\ CallsOf("generate_stream") = {}

\* C7: a failure of the streamed generation is delivered as an error frame,
\* an error frame is the last frame of its stream, and no stream holds both
\* a done and an error frame.
C7_ErrorTerminatesStream ==
    /\ \A i \in DOMAIN events : EventTypes[i] = "error" => i = Len(events)
    /\ ~ (\E i, j \in DOMAIN events :
             EventTypes[i] = "done" /\ EventTypes[j] = "error")
    /\ (\E i \in CallsOf("generate_stream") : calls[i].raised) =>
          /\ pc = "done"
          /\ events # <<>>
          /\ EventTypes[Len(events)] = "error"

C7_Witness ==
    /\ \E i \in CallsOf("generate_stream") : calls[i].raised
    /\ EventTypes = <<"sources", "metadata", "chunk", "error">>

\* C8: with reranking enabled the retriever is asked for
\* INITIAL_RETRIEVAL_COUNT documents and the reranker for FINAL_RESULT_COUNT;
\* with reranking disabled the retriever is asked for the caller's
\* match_count (or Config.MATCH_COUNT) and nothing narrows its result. The
\* threshold is the caller's or Config.MATCH_THRESHOLD in both modes.
C8_RetrievalCountPolicy ==
    /\ \A i \in CallsOf("search") :
          /\ calls[i].args.match_count =
                IF Config.RERANKER_ENABLED
                THEN INITIAL_RETRIEVAL_COUNT
                ELSE DictGet(body.dict, "match_count", MATCH_COUNT)
          /\ calls[i].args.match_threshold =
                DictGet(body.dict, "match_threshold", MATCH_THRESHOLD)
    /\ \A i \in CallsOf("rerank") :
          /\ Config.RERANKER_ENABLED
          /\ calls[i].args.top_k = FINAL_RESULT_COUNT
    /\ ~Config.RERANKER_ENABLED =>
          /\ CallsOf("rerank") = {}
          /\ similar_docs = retrieved

C8_Witness ==
    /\ Config.RERANKER_ENABLED
    /\ "match_count" \in DOMAIN body.dict
    /\ body.dict["match_count"] = 1
    /\ Returned("search")
    /\ Returned("rerank")
    /\ Len(retrieved) = INITIAL_RETRIEVAL_COUNT
    /\ Len(similar_docs) = FINAL_RESULT_COUNT

\* C9: rerank returns min(top_k, len(documents)) documents in non-increasing
\* order of rerank_score, each with the id, content and similarity it had
\* on input.
C9_RerankLengthOrderFields ==
    rr.pc = "returned" =>
        /\ Len(rr.result) = Min(rr.top_k, Len(rr.documents))
        /\ \A i \in 1..(Len(rr.result) - 1) :
              rr.result[i].rerank_score >= rr.result[i + 1].rerank_score
        /\ \A i \in DOMAIN rr.result :
              \E j \in DOMAIN rr.documents :
                 /\ rr.result[i].id = rr.documents[j].id
                 /\ rr.result[i].content = rr.documents[j].content
                 /\ rr.result[i].similarity = rr.documents[j].similarity

C9_Witness ==
    /\ rr.pc = "returned"
    /\ Len(rr.documents) = 3
    /\ rr.top_k = 2
    /\ Len(rr.result) = 2
    /\ rr.result[1].rerank_score > rr.result[2].rerank_score
    /\ rr.result[1].id # rr.documents[1].id

\* C10: rerank returns the top-scored documents: each returned document is
\* an input document with the score it was given, none is returned twice,
\* no omitted document scores strictly higher than a returned one, and a
\* top_k beyond the input length returns every input document.
C10_RerankTopScored ==
    rr.pc = "returned" =>
        /\ \A i \in DOMAIN rr.result :
              \E j \in DOMAIN rr.documents :
                 rr.result[i] = [rerank_score |-> rr.scores[j]] @@ rr.documents[j]
        /\ \A i, j \in DOMAIN rr.result : i # j => rr.result[i].id # rr.result[j].id
        /\ \A j \in DOMAIN rr.documents :
              (\A i \in DOMAIN rr.result : rr.result[i].id # rr.documents[j].id) =>
                 \A i \in DOMAIN rr.result : rr.scores[j] <= rr.result[i].rerank_score
        /\ rr.top_k >= Len(rr.documents) =>
              /\ Len(rr.result) = Len(rr.documents)
              /\ { rr.result[i].id : i \in DOMAIN rr.result }
                    = { rr.documents[j].id : j \in DOMAIN rr.documents }

C10_Witness ==
    /\ rr.pc = "returned"
    /\ Len(rr.documents) = 3
    /\ rr.top_k = 1
    /\ rr.scores = <<2, 2, 8>>
    /\ Len(rr.result) = 1
    /\ rr.result[1].id = rr.documents[3].id

\* The documents of a list that contribute content to the context.
DocsWithContent(documents) ==
    SelectSeq(documents, LAMBDA d : Truthy(DictGet(d, "content", NoneVal)))

\* C12: _build_context emits one numbered entry per document with non-empty
\* content, in the given order, skipping missing, None and empty contents,
\* and numbers the emitted entries contiguously from 1.
C12_ContiguousNumbering ==
    bc.pc = "returned" =>
        LET kept == DocsWithContent(bc.documents)
        IN  /\ Len(bc.context.parts) = Len(kept)
            /\ \A k \in DOMAIN kept :
                  /\ bc.context.parts[k].content = kept[k].content
                  /\ bc.context.parts[k].number = k

\* C13: _build_context returns the sentence "No relevant context found."
\* whenever no document contributes content, for the empty list and for a
\* non-empty list of documents without content alike.
C13_SentinelWhenNoContent ==
    (bc.pc = "returned" /\ DocsWithContent(bc.documents) = <<>>) =>
        bc.context = PlainText(NoContextFound)

\* The response of the request lists sources: a 200 of query, or the
\* sources frame of a stream.
HasSources ==
    \/ endpoint = "query" /\ pc = "done" /\ response.status = 200
    \/ endpoint = "stream" /\ events # <<>> /\ events[1].type = "sources"
Sources == IF endpoint = "query" THEN response.json.sources ELSE events[1].sources

\* C14: a source of a response, blocking or streamed, carries a rerank_score
\* exactly when the reranking stage ran for the query: none does with
\* reranking disabled, and with reranking run every source has one and still
\* carries the similarity the retriever gave it.
C14_RerankScoreIffReranked ==
    HasSources =>
        \A i \in DOMAIN Sources :
           /\ "rerank_score" \in DOMAIN Sources[i] <=> Returned("rerank")
           /\ ~Config.RERANKER_ENABLED => "rerank_score" \notin DOMAIN Sources[i]
           /\ "similarity" \in DOMAIN Sources[i]
           /\ Sources[i].similarity = DocSimilarity(Sources[i].id)

C14_Witness ==
    /\ HasSources
    /\ Returned("rerank")
    /\ Len(Sources) = FINAL_RESULT_COUNT
    /\ \A i \in DOMAIN Sources : "rerank_score" \in DOMAIN Sources[i]

\* The request's failure was reported: an error response, or an error frame
\* closing the stream.
FailureSurfaced ==
    \/ response.status \in {400, 500}
    \/ events # <<>> /\ events[Len(events)].type = "error"

\* C15: no stage is retried. Within one query embedding, vector search,
\* reranking and generation are each attempted at most once, a backend's
\* exception reaches the handler, and once a stage has raised no later stage
\* is called: the failing call is the last one and the query ends in error.
C15_NoStageRetried ==
    /\ \A stage \in {"embed", "search", "rerank"} : Cardinality(CallsOf(stage)) <= 1
    /\ Cardinality(CallsOf("generate") \cup CallsOf("generate_stream")) <= 1
    /\ \A i \in DOMAIN calls : calls[i].raised => i = Len(calls)
    /\ AnyRaised => pc = "done" /\ FailureSurfaced

C15_Witness ==
    /\ Len(calls) = 2
    /\ calls[2].stage = "search"
    /\ calls[2].raised
    /\ pc = "done"
    /\ response.status = 500

\* The handler is past the reranking step of a request whose retrieval
\* returned.
PastRerankStep ==
    /\ Returned("search")
    /\ pc \notin {"idle", "validate", "embed", "search", "rerank"}

\* C16: the reranker is invoked for a query exactly when reranking is enabled
\* in the configuration and the retrieved candidate list is non-empty, also
\* when retrieval returned fewer documents than FINAL_RESULT_COUNT; it is
\* given the retrieved list.
C16_RerankerInvokedIff ==
    /\ ~PastRerankStep => CallsOf("rerank") = {}
    /\ PastRerankStep =>
          (CallsOf("rerank") # {} <=> (Config.RERANKER_ENABLED /\ retrieved # <<>>))
    /\ \A i \in CallsOf("rerank") :
          /\ calls[i].args.documents # <<>>
          /\ Len(calls[i].args.documents) = Len(retrieved)

C16_Witness ==
    /\ PastRerankStep
    /\ \E i \in CallsOf("rerank") :
          Len(calls[i].args.documents) < FINAL_RESULT_COUNT

\* The position of a stage in the pipeline.
Rank(stage) ==
    CASE stage = "embed" -> 1
      [] stage = "search" -> 2
      [] stage = "rerank" -> 3
      [] stage \in {"generate", "generate_stream"} -> 4

\* The request passed validation and ended without a failure.
Completed == pc = "done" /\ response.status = 200 /\ ~AnyRaised

\* C17: the stages of a query run strictly in the order embed, retrieve,
\* (rerank), generate, each starting only after the previous one has
\* returned; a query that passes validation and completes without failure
\* has called the Embedder exactly once, the Retriever exactly once, the
\* Reranker at most once and the Answerer at most once, exactly once when
\* the final candidate set is non-empty.
C17_StagesInOrder ==
    /\ \A i, j \in DOMAIN calls : i < j => Rank(calls[i].stage) < Rank(calls[j].stage)
    /\ \A i \in DOMAIN calls : i < Len(calls) => ~calls[i].raised
    /\ \A i \in DOMAIN calls :
          /\ calls[i].stage = "embed" => i = 1
          /\ calls[i].stage = "search" => i = 2
          /\ Rank(calls[i].stage) >= 3 => Returned("search")
    /\ Completed =>
          /\ Cardinality(CallsOf("embed")) = 1
          /\ Cardinality(CallsOf("search")) = 1
          /\ Cardinality(CallsOf("rerank")) <= 1
          /\ Cardinality(CallsOf("generate") \cup CallsOf("generate_stream"))
                = IF similar_docs # <<>> THEN 1 ELSE 0

C17_Witness ==
    /\ Completed
    /\ Len(calls) = 4
    /\ calls[3].stage = "rerank"
    /\ calls[4].stage = "generate_stream"

\* C18: for every call of search_similar_documents that returns, every
\* returned document has a similarity of at least the match_threshold of the
\* call and the list has at most match_count documents.
C18_SearchBounds ==
    \A i \in CallsOf("search") :
       ~calls[i].raised =>
          /\ Len(retrieved) <= calls[i].args.match_count
          /\ \A k \in DOMAIN retrieved :
                retrieved[k].similarity >= calls[i].args.match_threshold

C18_Witness ==
    /\ pc = "rerank"
    /\ \E i \in CallsOf("search") :
          /\ calls[i].args.match_count = 1
          /\ calls[i].args.match_threshold = 9
    /\ Len(retrieved) = 1
    /\ retrieved[1].similarity = 9

\* C19: search_similar_documents returns an empty list, without raising,
\* when the data of the backend's response is an empty list or None;
\* otherwise it returns the backend's documents unchanged, in the backend's
\* order.
C19_EmptyOrUnchanged ==
    (vs.pc = "returned" /\ ~vs.execute.raises) =>
        /\ ~vs.raised
        /\ (vs.execute.is_none \/ vs.execute.data = <<>>) => vs.result = <<>>
        /\ (~vs.execute.is_none /\ vs.execute.data # <<>>) =>
              vs.result = vs.execute.data

C19_Witness ==
    /\ vs.pc = "returned"
    /\ ~vs.execute.raises
    /\ ~vs.execute.is_none
    /\ Len(vs.execute.data) = MaxDocs
    /\ vs.result = vs.execute.data

\* C20: every query that reaches the retriever has been validated: its
\* match_count is a positive integer and its match_threshold lies in [0, 1]
\* (0..10 in tenths); no other request causes a vector-search call.
C20_ValidatedBeforeSearch ==
    CallsOf("search") # {} =>
        /\ match_count > 0
        /\ match_threshold \in 0..10

\* Every character of s is whitespace.
AllSpace(s) == \A i \in DOMAIN s : IsSpace(s[i])

\* t is s without its leading and trailing whitespace: s is whitespace,
\* then t, then whitespace, and t neither starts nor ends with whitespace.
IsStripped(t, s) ==
    /\ t # <<>> => ~IsSpace(t[1]) /\ ~IsSpace(t[Len(t)])
    /\ \E i \in 0..Len(s) :
          /\ i + Len(t) <= Len(s)
          /\ AllSpace(SubSeq(s, 1, i))
          /\ t = SubSeq(s, i + 1, i + Len(t))
          /\ AllSpace(SubSeq(s, i + Len(t) + 1, Len(s)))

\* C21: generate_answer returns the backend's response text without its
\* leading and trailing whitespace, and the empty string when the reply has
\* an empty response or no response key.
C21_AnswerStripped ==
    (ga.pc = "returned" /\ ~ga.post.raises) =>
        /\ ~ga.raised
        /\ IF "response" \in DOMAIN ga.post.json
           THEN /\ IsStripped(ga.answer, ga.post.json.response)
                /\ ga.post.json.response = <<>> => ga.answer = <<>>
           ELSE ga.answer = <<>>

C21_Witness ==
    /\ ga.pc = "returned"
    /\ "response" \in DOMAIN ga.post.json
    /\ ga.post.json.response = <<" ", "a", " ", "\n">>
    /\ ga.answer = <<"a">>

\* The contents of the chunk frames of the stream, in the order sent.
ChunkFrames == SelectSeq(events, LAMBDA ev : ev.type = "chunk")
ChunkContents == [i \in DOMAIN ChunkFrames |-> ChunkFrames[i].content]

\* C22: in a stream the answer fragments are forwarded as chunk events in
\* generation order, each non-empty fragment exactly once, and an empty
\* fragment produces no chunk event: at every moment the chunks sent are
\* the non-empty fragments generated so far, in their order.
C22_ChunksAreNonEmptyFragments ==
    endpoint = "stream" =>
        /\ ChunkContents = SelectSeq(fragments, LAMBDA f : f # <<>>)
        /\ \A i \in DOMAIN ChunkContents : ChunkContents[i] # <<>>

C22_Witness ==
    /\ endpoint = "stream"
    /\ pc = "done"
    /\ fragments = << <<>>, <<"b">> >>
    /\ ChunkContents = << <<"b">> >>

\* The attributes of the reranking surface.
RerankingSurface ==
    { "RERANKER_ENABLED", "RERANKER_MODEL", "INITIAL_RETRIEVAL_COUNT",
      "FINAL_RESULT_COUNT" }

\* C23: the configuration defines the reranking surface the orchestrator
\* reads: RERANKER_ENABLED is a boolean, RERANKER_MODEL exists,
\* INITIAL_RETRIEVAL_COUNT and FINAL_RESULT_COUNT are positive integers, and
\* no read of them by app.py fails.
C23_RerankingSurfaceDefined ==
    /\ cf.pc \in {"loaded", "validated", "read"} =>
          /\ RerankingSurface \subseteq DOMAIN cf.attrs
          /\ cf.attrs.RERANKER_ENABLED \in BOOLEAN
          /\ cf.attrs.INITIAL_RETRIEVAL_COUNT > 0
          /\ cf.attrs.FINAL_RESULT_COUNT > 0
    /\ cf.pc = "read" => ~cf.read.raised

\* The required variables the environment leaves unset or empty.
EnvMissing ==
    { name \in {"SUPABASE_URL", "SUPABASE_KEY"} : cf.environ[name] \in {NoneVal, ""} }

\* C24: Config.validate raises ValueError exactly when SUPABASE_URL or
\* SUPABASE_KEY is unset or empty, its message names every missing variable
\* and no other, and with both set it returns without raising.
C24_ValidateIffMissing ==
    cf.pc \in {"validated", "read"} =>
        /\ cf.validate.raised <=> EnvMissing # {}
        /\ { cf.validate.missing[i] : i \in DOMAIN cf.validate.missing } = EnvMissing
        /\ Len(cf.validate.missing) = Cardinality(EnvMissing)

C24_Witness ==
    /\ cf.pc = "validated"
    /\ cf.environ.SUPABASE_URL = "url"
    /\ cf.environ.SUPABASE_KEY = ""
    /\ cf.validate.raised
    /\ cf.validate.missing = <<"SUPABASE_KEY">>

\* Calls of the Answerer made for the request.
AnswererCalls == CallsOf("generate") \cup CallsOf("generate_stream")

\* C26: once the candidate set has been passed to the Answerer it is not
\* modified: the handler's list stays the list that was passed, and the
\* sources returned to the caller are exactly those documents, with the same
\* fields and in the same order.
C26_CandidatesUnchangedByAnswerer ==
    \A i \in AnswererCalls :
       /\ similar_docs = calls[i].args.documents
       /\ HasSources => Sources = calls[i].args.documents

C26_Witness ==
    /\ endpoint = "query"
    /\ pc = "done"
    /\ response.status = 200
    /\ CallsOf("generate") # {}
    /\ Len(response.json.sources) = 2

\* A request is being handled or has been handled.
RequestSeen == pc # "idle"

\* C27: the service handles are constructed once, by initialize_services,
\* before any request is served, and request handling never assigns them;
\* no handler runs with a None embedding, vector or LLM handle, and the
\* reranker handle is set exactly when reranking is enabled.
C27_HandlesSetOnce ==
    /\ [](/\ mainpc = "boot" => handles = << NoneVal, NoneVal, NoneVal, NoneVal >>
          /\ RequestSeen =>
                /\ mainpc = "serving"
                /\ embedding_service # NoneVal
                /\ vector_service # NoneVal
                /\ llm_service # NoneVal
          /\ mainpc = "serving" =>
                (reranker_service # NoneVal <=> Config.RERANKER_ENABLED))
    /\ [][handles' # handles => mainpc = "boot" /\ mainpc' = "serving"]_vars

C27_Witness ==
    /\ mainpc = "serving"
    /\ pc = "done"
    /\ response.status = 200
    /\ Config.RERANKER_ENABLED
    /\ reranker_service # NoneVal

\* C28: rerank writes rerank_score in place into every input document, the
\* ones it does not return included, and leaves the caller's list in its
\* original order and length; the returned list is another list, holding
\* documents of the input list.
C28_RerankScoresInPlace ==
    rr.pc = "returned" =>
        /\ Len(rr.input) = Len(rr.documents)
        /\ \A j \in DOMAIN rr.documents :
              rr.input[j] = [rerank_score |-> rr.scores[j]] @@ rr.documents[j]
        /\ \A i \in DOMAIN rr.result : \E j \in DOMAIN rr.input : rr.result[i] = rr.input[j]

C28_Witness ==
    /\ rr.pc = "returned"
    /\ Len(rr.input) = 3
    /\ rr.scores = <<2, 8, 8>>
    /\ rr.top_k = 1
    /\ rr.result = << rr.input[2] >>
    /\ rr.input[1].rerank_score = 2
    /\ rr.input[1].id = rr.documents[1].id

\* The frames of the stream are sources, metadata, chunks and one error.
FailedGenerationFrames ==
    /\ Len(events) >= 3
    /\ EventTypes[1] = "sources"
    /\ EventTypes[2] = "metadata"
    /\ \A i \in 3..(Len(events) - 1) : EventTypes[i] = "chunk"
    /\ EventTypes[Len(events)] = "error"

\* C29: on /api/query/stream a failure of embedding, retrieval or reranking
\* comes before any frame and is answered with a 500 JSON response and no
\* events; a failure of generation comes after the sources and metadata
\* frames and is an error frame inside a 200 event stream, so that such an
\* error frame is preceded by exactly one sources and one metadata frame.
C29_StreamFailureBeforeOrAfterFrames ==
    endpoint = "stream" =>
        /\ events # <<>> => response = EventStream
        /\ \A i \in DOMAIN calls :
              calls[i].raised =>
                 IF calls[i].stage = "generate_stream"
                 THEN /\ response = EventStream
                      /\ FailedGenerationFrames
                 ELSE /\ response.status = 500
                      /\ response.mimetype = "application/json"
                      /\ events = <<>>

C29_Witness ==
    /\ endpoint = "stream"
    /\ \E i \in CallsOf("generate_stream") : calls[i].raised
    /\ EventTypes = <<"sources", "metadata", "chunk", "error">>

\* C30: with reranking enabled a successful response or sources frame never
\* lists more than FINAL_RESULT_COUNT sources, however many documents the
\* retriever returned; with reranking disabled nothing is cut and the
\* sources are as many as the retriever returned.
C30_SourcesBound ==
    HasSources =>
        IF Config.RERANKER_ENABLED
        THEN Len(Sources) <= FINAL_RESULT_COUNT
        ELSE Len(Sources) = Len(retrieved)

C30_Witness ==
    /\ HasSources
    /\ Config.RERANKER_ENABLED
    /\ Len(retrieved) = 3
    /\ Len(Sources) = FINAL_RESULT_COUNT

\* The request r handled alone, from its arrival to its end.
RECURSIVE RunAlone(_)
RunAlone(r) == IF r.pc = "done" THEN r ELSE RunAlone(HandlerStep(r))
Alone(r) == RunAlone(NewRequest(r.endpoint, r.body, r.world))

====
